---- MODULE Spec2Model ----
(***************************************************************************)
(* Model of CreateECSLoggingIssueTickets.create_tickets_ecs_logging        *)
(* (reporting/create_ecs_logging_issue_tickets.py): one reconciliation     *)
(* pass over the accounts of the configuration and the not-closed ECS      *)
(* logging issues of each account, with the Jira, Slack and DynamoDB       *)
(* collaborators of library/ modelled as adapters whose calls either       *)
(* return or raise.                                                        *)
(***************************************************************************)
EXTENDS Integers, Sequences, FiniteSets, TLC

\* ---------------------------------------------------------------- bounds
\* scheduled invocations of the script
MaxRuns == 3
\* adapter calls that raise, over the whole behaviour
MaxFails == 1
\* scanner interventions (tag refreshes and status changes)
MaxScans == 1

\* ---------------------------------------------------------- configuration
\* config.aws.accounts, in iteration order
Accounts == <<"a1", "a2">>

\* the issues the scanner has stored, keyed by issue id: two issues in the
\* first account, none in the second
Findings == {1, 2}

\* account_id of the issue
AccountOf(f) == "a1"

\* `None` of a timestamp or of a ticket id
NoTime == 0
NoTicket == 0
\* `None` of a string field
None == "None"

\* the tag sets the scanner may attach to a task definition
TagChoices == { [owner |-> "alice", bu |-> "fin"],
                [owner |-> "bob", bu |-> "ops", product |-> "web"] }

\* the tags the scanner stored with the issue when it created it
InitTags(f) == IF f = 1 THEN [owner |-> "alice", bu |-> "fin"]
               ELSE [region |-> "eu"]

\* response.ticket_assignee_id of a ticket created for the owner: the owner,
\* or the default assignee of the project when the owner is unknown
AssigneeFor(owner) == IF owner = None THEN "default" ELSE owner

\* dict.get(key, None)
TagsGet(tags, key) == IF key \in DOMAIN tags THEN tags[key] ELSE None

VARIABLES
  store,      \* DynamoDB table: issue id -> persisted issue
  tickets,    \* Jira: sequence of tickets, the index is the ticket id
  now,        \* clock
  pc,         \* position of the script
  acctIdx,    \* index of the next account of the outer loop
  issues,     \* issues of the current account still to iterate (in memory)
  cur,        \* the issue object of the current iteration (in memory)
  log,        \* the adapter calls of the current run, in order
  visited,    \* issues the inner loop has picked in the current run
  runs,       \* runs started
  fails,      \* adapter calls that raised
  scans,      \* scanner interventions
  returned,   \* issue id -> the jira calls that ever returned for the issue
  clean,      \* the last run ended with no call raised, no scanner write since
  other       \* a second instance of the script, launched while one may run

vars == <<store, tickets, now, pc, acctIdx, issues, cur, log, visited, runs, fails,
          scans, returned, clean, other>>

\* the issue as the scanner creates it: Open, not reported, no jira details
NewIssue(f) ==
  [ id |-> f, status |-> "Open", reported |-> NoTime, updated |-> 1,
    tags |-> InitTags(f), ticket |-> NoTicket, assignee |-> None,
    owner |-> None, bu |-> None, product |-> None ]

NoIssue == [ id |-> 0 ]

Init ==
  /\ store = [f \in Findings |-> NewIssue(f)]
  /\ tickets = <<>>
  /\ now = 1
  /\ pc = "idle"
  /\ acctIdx = 1
  /\ issues = <<>>
  /\ cur = NoIssue
  /\ log = <<>>
  /\ visited = {}
  /\ runs = 0
  /\ fails = 0
  /\ scans = 0
  /\ returned = [f \in Findings |-> {}]
  /\ clean = FALSE
  /\ other = "off"

\* ------------------------------------------------------------- helpers
RECURSIVE SortedSeq(_)
\* the issues of a query result as a sequence, by ascending issue id
SortedSeq(S) ==
  IF S = {} THEN <<>>
  ELSE LET m == CHOOSE x \in S : \A y \in S : x <= y
       IN <<m>> \o SortedSeq(S \ {m})

\* IssueOperations.get_account_not_closed_issues(ddb_table, account_id, ...)
GetAccountNotClosedIssues(account) ==
  LET ids == {f \in Findings : AccountOf(f) = account /\ store[f].status # "Closed"}
      order == SortedSeq(ids)
  IN [i \in 1..Len(order) |-> store[order[i]]]

\* one adapter call of the run: the issue, the call, whether it returned,
\* and what it carried
Event(issue, op, ok, arg) == [f |-> issue.id, op |-> op, ok |-> ok, arg |-> arg]

\* `issue.timestamps.reported is not None`
IsReported(issue) == issue.reported # NoTime

\* mutant: Resolved left out of the list of statuses to close
ShouldClose_WhitelistedOnly(issue) == issue.status \in {"Whitelisted"}

\* mutant: Whitelisted left out of the list of statuses to close
ShouldClose_ResolvedOnly(issue) == issue.status \in {"Resolved"}

\* `issue.status in [IssueStatus.Resolved, IssueStatus.Whitelisted]`
ShouldClose(issue) == issue.status \in {"Resolved", "Whitelisted"}

\* mutant: the label test compares with the wrong status
NeedsLabel_Resolved(issue) == issue.status = "Resolved"

\* `issue.status == IssueStatus.Whitelisted`
NeedsLabel(issue) == issue.status = "Whitelisted"

\* mutant: the operands of the comparison swapped
IsChanged_Reversed(issue) == issue.reported > issue.updated

\* mutant: >= in place of >
IsChanged_OrEqual(issue) == issue.updated >= issue.reported

\* `issue.timestamps.updated > issue.timestamps.reported`
IsChanged(issue) == issue.updated > issue.reported

\* mutant: the drift test placed before the status test
Branch_DriftFirst(issue) ==
  IF issue.reported # NoTime
  THEN IF issue.updated > issue.reported THEN "report_changed"
       ELSE IF issue.status \in {"Resolved", "Whitelisted"}
            THEN IF issue.status = "Whitelisted" THEN "add_label" ELSE "close_issue"
            ELSE "issues"
  ELSE "add_issue"

\* mutant: the status test placed before the reported test
Branch_StatusFirst(issue) ==
  IF issue.status \in {"Resolved", "Whitelisted"}
  THEN IF issue.status = "Whitelisted" THEN "add_label" ELSE "close_issue"
  ELSE IF issue.reported # NoTime
       THEN IF issue.updated > issue.reported THEN "report_changed" ELSE "issues"
       ELSE "add_issue"

\* the first step of the branch the loop body takes for the issue
Branch(issue) ==
  IF IsReported(issue)
  THEN IF ShouldClose(issue)
       THEN IF NeedsLabel(issue) THEN "add_label" ELSE "close_issue"
       ELSE IF IsChanged(issue) THEN "report_changed" ELSE "issues"
  ELSE "add_issue"

\* owner, bu and product as the unreported branch derives them from the tags
TagOwner(issue) == TagsGet(issue.tags, "owner")
TagBu(issue) == TagsGet(issue.tags, "bu")
TagProduct(issue) == TagsGet(issue.tags, "product")

\* jira.add_issue returned None
NoResponse == [is_none |-> TRUE]

\* jira.add_issue returned the id and the assignee of the new ticket
Response(ticket_id, assignee) ==
  [is_none |-> FALSE, ticket_id |-> ticket_id, ticket_assignee_id |-> assignee]

\* the `if response is not None` assignments to issue.jira_details
WithResponse(issue, response) ==
  IF response # NoResponse
  THEN [issue EXCEPT !.ticket = response.ticket_id,
                     !.assignee = response.ticket_assignee_id]
  ELSE issue

\* mutant: product assigned from the bu
WithOwnership_ProductFromBu(issue) ==
  [issue EXCEPT !.owner = TagOwner(issue),
                !.bu = TagBu(issue),
                !.product = TagBu(issue)]

\* the assignments of owner, business_unit and product to issue.jira_details
WithOwnership(issue) ==
  [issue EXCEPT !.owner = TagOwner(issue),
                !.bu = TagBu(issue),
                !.product = TagProduct(issue)]

\* mutant: the url suffix appended whether or not there is a ticket id
HasUrl_Always(issue) == issue.ticket = issue.ticket

\* the ticket url suffix of a message: present iff issue.jira_details.ticket
HasUrl(issue) == issue.ticket # NoTicket

\* the arguments of slack.report_issue in the "discovered" message
DiscoveredMsg(issue) ==
  [kind |-> "discovered", url |-> HasUrl(issue),
   owner |-> TagOwner(issue), bu |-> TagBu(issue), product |-> TagProduct(issue)]

\* the arguments of slack.report_issue in the "closing" message
ClosingMsg(issue) ==
  [kind |-> "closing", url |-> HasUrl(issue),
   owner |-> issue.owner, bu |-> issue.bu, product |-> issue.product]

\* mutant: owner, bu and product of the message taken from the tags again
ChangedMsg_FromTags(issue) ==
  [kind |-> "changed", url |-> issue.ticket # NoTicket,
   owner |-> TagsGet(issue.tags, "owner"), bu |-> TagsGet(issue.tags, "bu"),
   product |-> TagsGet(issue.tags, "product")]

\* the arguments of slack.report_issue in the "is changed" message
ChangedMsg(issue) ==
  [kind |-> "changed", url |-> HasUrl(issue),
   owner |-> issue.owner, bu |-> issue.bu, product |-> issue.product]

\* the persisted issue after a write of the in-memory issue: the status,
\* the reported timestamp and the jira details are the engine's fields,
\* tags and the updated timestamp stay the scanner's
Persist(issue) ==
  [store EXCEPT ![issue.id] =
     [@ EXCEPT !.status = issue.status, !.reported = issue.reported,
               !.ticket = issue.ticket, !.assignee = issue.assignee,
               !.owner = issue.owner, !.bu = issue.bu,
               !.product = issue.product]]

\* IssueOperations.set_status_reported: status Reported, reported_at = now
SetStatusReported(issue) ==
  Persist([issue EXCEPT !.status = "Reported", !.reported = now])

\* IssueOperations.set_status_closed: status Closed
SetStatusClosed(issue) == Persist([issue EXCEPT !.status = "Closed"])

\* IssueOperations.set_status_updated: the reported timestamp acknowledges
\* the update the issue was read with
SetStatusUpdated(issue) == Persist([issue EXCEPT !.reported = issue.updated])

\* jira.add_label on the ticket (nothing to label without a ticket id)
AddLabel(ticket_id, label) ==
  IF ticket_id = NoTicket THEN tickets
  ELSE [tickets EXCEPT ![ticket_id].labels = @ \cup {label}]

\* jira.close_issue on the ticket (nothing to close without a ticket id)
CloseIssue(ticket_id) ==
  IF ticket_id = NoTicket THEN tickets
  ELSE [tickets EXCEPT ![ticket_id].closes = @ + 1]

\* the ticket jira.add_issue files for the issue
NewTicket(issue) == [issue |-> issue.id, closes |-> 0, labels |-> {"ecs-logging"}]

\* ------------------------------------------------------------ the script
\* what every step leaves alone unless it says otherwise
Budget == <<runs, scans, now>>

\* __main__: the singleton is obtained and create_tickets_ecs_logging starts
Start ==
  /\ pc = "idle"
  /\ runs < MaxRuns
  /\ runs' = runs + 1
  /\ pc' = "accounts"
  /\ acctIdx' = 1
  /\ UNCHANGED <<store, tickets, now, issues, cur, log, visited, fails, scans>>
  /\ UNCHANGED <<returned, clean, other>>

\* the process ends, after the method returned or after __main__ logged the
\* exception: nothing of the run is left in memory
Exit ==
  /\ pc \in {"finished", "failed"}
  /\ pc' = "idle"
  /\ acctIdx' = 1
  /\ issues' = <<>>
  /\ cur' = NoIssue
  /\ log' = <<>>
  /\ visited' = {}
  /\ clean' = (pc = "finished" /\ \A i \in 1..Len(log) : log[i].ok)
  /\ UNCHANGED <<store, tickets, fails, Budget, returned, other>>

\* `for account_id, account_name in self.config.aws.accounts.items()`:
\* the issues of the next account are read
NextAccount ==
  /\ pc = "accounts"
  /\ acctIdx <= Len(Accounts)
  /\ issues' = GetAccountNotClosedIssues(Accounts[acctIdx])
  /\ acctIdx' = acctIdx + 1
  /\ pc' = "issues"
  /\ UNCHANGED <<store, tickets, cur, log, visited, fails, Budget>>
  /\ UNCHANGED <<returned, clean, other>>

\* the outer loop is exhausted: the method returns and the process ends
Finish ==
  /\ pc = "accounts"
  /\ acctIdx > Len(Accounts)
  /\ pc' = "finished"
  /\ cur' = NoIssue
  /\ UNCHANGED <<store, tickets, acctIdx, issues, log, visited, fails, Budget>>
  /\ UNCHANGED <<returned, clean, other>>

\* `for issue in issues`: the next issue is picked and its branch chosen
NextIssue ==
  /\ pc = "issues"
  /\ issues # <<>>
  /\ cur' = Head(issues)
  /\ issues' = Tail(issues)
  /\ visited' = visited \cup {Head(issues).id}
  /\ pc' = Branch(Head(issues))
  /\ UNCHANGED <<store, tickets, acctIdx, log, fails, Budget>>
  /\ UNCHANGED <<returned, clean, other>>

\* the inner loop is exhausted
EndIssues ==
  /\ pc = "issues"
  /\ issues = <<>>
  /\ pc' = "accounts"
  /\ cur' = NoIssue
  /\ UNCHANGED <<store, tickets, acctIdx, issues, log, visited, fails, Budget>>
  /\ UNCHANGED <<returned, clean, other>>

\* an adapter call raises outside the try of add_issue: the exception leaves
\* create_tickets_ecs_logging and __main__ logs it; the process ends
Raises(op, arg) ==
  /\ fails < MaxFails
  /\ fails' = fails + 1
  /\ log' = Append(log, Event(cur, op, FALSE, arg))
  /\ pc' = "failed"
  /\ issues' = <<>>
  /\ cur' = NoIssue
  /\ UNCHANGED <<store, tickets, acctIdx, visited, Budget>>
  /\ UNCHANGED <<returned, clean, other>>

\* an adapter call that touches neither Jira nor the table returns
Returns(op, arg, next) ==
  /\ log' = Append(log, Event(cur, op, TRUE, arg))
  /\ pc' = next
  /\ UNCHANGED <<acctIdx, issues, cur, visited, fails, Budget>>
  /\ UNCHANGED <<clean, other>>

\* jira.add_label(ticket_id=issue.jira_details.ticket, labels=Whitelisted)
JiraAddLabel ==
  /\ pc = "add_label"
  /\ tickets' = AddLabel(cur.ticket, "Whitelisted")
  /\ Returns("add_label", cur.ticket, "close_issue")
  /\ UNCHANGED <<store, returned>>

JiraAddLabelRaises == pc = "add_label" /\ Raises("add_label", cur.ticket)

\* mutant: set_status_closed called before the closing message instead of
\* after it
JiraCloseIssue_WritesFirst ==
  /\ pc = "close_issue"
  /\ tickets' = CloseIssue(cur.ticket)
  /\ store' = SetStatusClosed(cur)
  /\ returned' = [returned EXCEPT ![cur.id] = @ \cup {"close_issue"}]
  /\ Returns("close_issue", cur.ticket, "report_closing")

\* jira.close_issue(ticket_id=issue.jira_details.ticket, comment=comment)
JiraCloseIssue ==
  /\ pc = "close_issue"
  /\ tickets' = CloseIssue(cur.ticket)
  /\ returned' = [returned EXCEPT ![cur.id] = @ \cup {"close_issue"}]
  /\ Returns("close_issue", cur.ticket, "report_closing")
  /\ UNCHANGED store

\* mutant: the exception of jira.close_issue caught and ignored
JiraCloseIssueRaises_Swallowed ==
  /\ pc = "close_issue"
  /\ fails < MaxFails
  /\ fails' = fails + 1
  /\ log' = Append(log, Event(cur, "close_issue", FALSE, cur.ticket))
  /\ pc' = "report_closing"
  /\ UNCHANGED <<store, tickets, acctIdx, issues, cur, visited, Budget>>
  /\ UNCHANGED <<returned, clean, other>>

JiraCloseIssueRaises == pc = "close_issue" /\ Raises("close_issue", cur.ticket)

\* slack.report_issue of the closing comment
SlackClosing ==
  /\ pc = "report_closing"
  /\ Returns("report_issue", ClosingMsg(cur), "set_status_closed")
  /\ UNCHANGED <<store, tickets, returned>>

SlackClosingRaises == pc = "report_closing" /\ Raises("report_issue", ClosingMsg(cur))

\* mutant: `if` in place of `elif`, the drift test follows the close branch
StoreClosed_FallsThrough ==
  /\ pc = "set_status_closed"
  /\ store' = SetStatusClosed(cur)
  /\ Returns("set_status", "Closed",
             IF cur.updated > cur.reported THEN "report_changed" ELSE "issues")
  /\ UNCHANGED <<tickets, returned>>

\* IssueOperations.set_status_closed(ddb_table, issue)
StoreClosed ==
  /\ pc = "set_status_closed"
  /\ store' = SetStatusClosed(cur)
  /\ Returns("set_status", "Closed", "issues")
  /\ UNCHANGED <<tickets, returned>>

StoreClosedRaises == pc = "set_status_closed" /\ Raises("set_status", "Closed")

\* slack.report_issue of the "issue is changed" message
SlackChanged ==
  /\ pc = "report_changed"
  /\ Returns("report_issue", ChangedMsg(cur), "set_status_updated")
  /\ UNCHANGED <<store, tickets, returned>>

SlackChangedRaises == pc = "report_changed" /\ Raises("report_issue", ChangedMsg(cur))

\* mutant: the set_status_updated call left out of the drift branch
StoreUpdated_NoWrite ==
  /\ pc = "set_status_updated"
  /\ pc' = "issues"
  /\ UNCHANGED <<store, tickets, now, acctIdx, issues, cur, log, visited, runs,
                 fails, scans, returned, clean, other>>

\* IssueOperations.set_status_updated(ddb_table, issue)
StoreUpdated ==
  /\ pc = "set_status_updated"
  /\ store' = SetStatusUpdated(cur)
  /\ Returns("set_status", "Updated", "issues")
  /\ UNCHANGED <<tickets, returned>>

StoreUpdatedRaises == pc = "set_status_updated" /\ Raises("set_status", "Updated")

\* the issue object after the statements between add_issue and the
\* "discovered" message: the response and the ownership are assigned
AfterAddIssue(issue, response) == WithOwnership(WithResponse(issue, response))

\* jira.add_issue returns a new ticket
JiraAddIssue ==
  /\ pc = "add_issue"
  /\ LET response == Response(Len(tickets) + 1, AssigneeFor(TagOwner(cur))) IN
       /\ tickets' = Append(tickets, NewTicket(cur))
       /\ cur' = AfterAddIssue(cur, response)
       /\ log' = Append(log, Event(cur, "add_issue", TRUE, response))
  /\ returned' = [returned EXCEPT ![cur.id] = @ \cup {"add_issue"}]
  /\ pc' = "report_discovered"
  /\ UNCHANGED <<store, acctIdx, issues, visited, fails, Budget, clean, other>>

\* jira.add_issue returns None: no ticket id and no assignee
JiraAddIssueNone ==
  /\ pc = "add_issue"
  /\ cur' = AfterAddIssue(cur, NoResponse)
  /\ log' = Append(log, Event(cur, "add_issue", TRUE, NoResponse))
  /\ returned' = [returned EXCEPT ![cur.id] = @ \cup {"add_issue"}]
  /\ pc' = "report_discovered"
  /\ UNCHANGED <<store, tickets, acctIdx, issues, visited, fails, Budget, clean, other>>

\* mutant: the `continue` of the except clause left out
JiraAddIssueRaises_NoContinue ==
  /\ pc = "add_issue"
  /\ fails < MaxFails
  /\ fails' = fails + 1
  /\ log' = Append(log, Event(cur, "add_issue", FALSE, NoResponse))
  /\ pc' = "report_discovered"
  /\ UNCHANGED <<store, tickets, acctIdx, issues, cur, visited, Budget>>
  /\ UNCHANGED <<returned, clean, other>>

\* jira.add_issue raises: `except Exception: ... continue`
JiraAddIssueRaises ==
  /\ pc = "add_issue"
  /\ fails < MaxFails
  /\ fails' = fails + 1
  /\ log' = Append(log, Event(cur, "add_issue", FALSE, NoResponse))
  /\ pc' = "issues"
  /\ UNCHANGED <<store, tickets, acctIdx, issues, cur, visited, Budget>>
  /\ UNCHANGED <<returned, clean, other>>

\* slack.report_issue of the "Discovered" message
SlackDiscovered ==
  /\ pc = "report_discovered"
  /\ Returns("report_issue", DiscoveredMsg(cur), "set_status_reported")
  /\ UNCHANGED <<store, tickets, returned>>

SlackDiscoveredRaises ==
  pc = "report_discovered" /\ Raises("report_issue", DiscoveredMsg(cur))

\* mutant: set_status_closed called in place of set_status_reported
StoreReported_AsClosed ==
  /\ pc = "set_status_reported"
  /\ store' = SetStatusClosed(cur)
  /\ Returns("set_status", "Reported", "issues")
  /\ UNCHANGED <<tickets, returned>>

\* IssueOperations.set_status_reported(ddb_table, issue)
StoreReported ==
  /\ pc = "set_status_reported"
  /\ store' = SetStatusReported(cur)
  /\ Returns("set_status", "Reported", "issues")
  /\ UNCHANGED <<tickets, returned>>

StoreReportedRaises == pc = "set_status_reported" /\ Raises("set_status", "Reported")

\* ----------------------------------------------------------- the scanner
\* The scanner (the identification job) and this script are scheduled
\* separately; the scanner's writes are placed between two runs of the
\* script, so that a pass works on the table as it read it.
BetweenRuns == pc = "idle"

\* the external scanner refreshes the detection of an issue: new tags and
\* updated_at = now
ScannerRefresh ==
  /\ BetweenRuns
  /\ scans < MaxScans
  /\ \E f \in Findings, t \in TagChoices :
       store' = [store EXCEPT ![f].tags = t, ![f].updated = now + 1]
  /\ now' = now + 1
  /\ scans' = scans + 1
  /\ clean' = FALSE
  /\ UNCHANGED <<tickets, pc, acctIdx, issues, cur, log, visited, runs, fails>>
  /\ UNCHANGED <<returned, other>>

\* the disposition of a not-closed issue changes outside the engine, with
\* or without a refresh of the detection
ScannerStatus ==
  /\ BetweenRuns
  /\ scans < MaxScans
  /\ \E f \in Findings, s \in {"Open", "Resolved", "Whitelisted"}, refresh \in BOOLEAN :
       /\ store[f].status \notin {"Closed", s}
       /\ store' = [store EXCEPT ![f].status = s,
                                 ![f].updated = IF refresh THEN now + 1 ELSE @]
       /\ now' = IF refresh THEN now + 1 ELSE now
  /\ scans' = scans + 1
  /\ clean' = FALSE
  /\ UNCHANGED <<tickets, pc, acctIdx, issues, cur, log, visited, runs, fails>>
  /\ UNCHANGED <<returned, other>>

\* the steps of a run once it has started
PassStep ==
  \/ Exit \/ NextAccount \/ Finish \/ NextIssue \/ EndIssues
  \/ JiraAddLabel \/ JiraAddLabelRaises
  \/ JiraCloseIssue \/ JiraCloseIssueRaises
  \/ SlackClosing \/ SlackClosingRaises
  \/ StoreClosed \/ StoreClosedRaises
  \/ SlackChanged \/ SlackChangedRaises
  \/ StoreUpdated \/ StoreUpdatedRaises
  \/ JiraAddIssue \/ JiraAddIssueNone \/ JiraAddIssueRaises
  \/ SlackDiscovered \/ SlackDiscoveredRaises
  \/ StoreReported \/ StoreReportedRaises

Next == Start \/ PassStep \/ ScannerRefresh \/ ScannerStatus

Spec == Init /\ [][Next]_vars

\* ---------------------------------------------------- overlapping instances
\* SingletonInstance(module_name): the guard is held from the moment an
\* instance obtained it until its process ends
SingletonHeld == pc # "idle"

\* a second instance of the script is launched (cron overlap): logging and
\* configuration are set up
LaunchOther ==
  /\ other = "off"
  /\ other' = "launched"
  /\ UNCHANGED <<store, tickets, now, pc, acctIdx, issues, cur, log, visited, runs,
                 fails, scans, returned, clean>>

\* mutant: the sys.exit(1) of the except clause left out, the instance goes
\* on to create_tickets_ecs_logging
OtherQuits_NoExit ==
  /\ other = "launched"
  /\ SingletonHeld
  /\ other' = "running"
  /\ UNCHANGED <<store, tickets, now, pc, acctIdx, issues, cur, log, visited, runs,
                 fails, scans, returned, clean>>

\* `except SingletonInstanceException`: the guard is held by the running
\* instance, the second instance logs the error and exits
OtherQuits ==
  /\ other = "launched"
  /\ SingletonHeld
  /\ other' = "off"
  /\ UNCHANGED <<store, tickets, now, pc, acctIdx, issues, cur, log, visited, runs,
                 fails, scans, returned, clean>>

\* the second instance obtains the guard, no instance being running: it is
\* the instance that runs the pass
OtherStarts ==
  /\ other = "launched"
  /\ ~SingletonHeld
  /\ runs < MaxRuns
  /\ other' = "off"
  /\ runs' = runs + 1
  /\ pc' = "accounts"
  /\ acctIdx' = 1
  /\ UNCHANGED <<store, tickets, now, issues, cur, log, visited, fails, scans,
                 returned, clean>>

OverlapNext == Next \/ LaunchOther \/ OtherQuits \/ OtherStarts

OverlapSpec == Init /\ [][OverlapNext]_vars

\* ------------------------------------------------------- a closed issue
\* the table after issue 1 was reported, resolved and closed by earlier
\* runs, issue 2 being new
InitClosed ==
  /\ store = [f \in Findings |->
               IF f = 1
               THEN [NewIssue(1) EXCEPT !.status = "Closed", !.reported = 1,
                                        !.ticket = 1, !.assignee = "alice",
                                        !.owner = "alice", !.bu = "fin"]
               ELSE NewIssue(f)]
  /\ tickets = <<[NewTicket(NewIssue(1)) EXCEPT !.closes = 1]>>
  /\ now = 1
  /\ pc = "idle"
  /\ acctIdx = 1
  /\ issues = <<>>
  /\ cur = NoIssue
  /\ log = <<>>
  /\ visited = {}
  /\ runs = 0
  /\ fails = 0
  /\ scans = 0
  /\ returned = [f \in Findings |-> IF f = 1 THEN {"add_issue", "close_issue"} ELSE {}]
  /\ clean = FALSE
  /\ other = "off"

ClosedSpec == InitClosed /\ [][Next]_vars

\* ------------------------------------------------------- repeated runs
\* the scheduler starts the script again, any number of times
StartAgain ==
  /\ pc = "idle"
  /\ pc' = "accounts"
  /\ acctIdx' = 1
  /\ UNCHANGED <<store, tickets, now, issues, cur, log, visited, runs, fails, scans,
                 returned, clean, other>>

LiveNext == StartAgain \/ PassStep \/ ScannerRefresh \/ ScannerStatus

\* the scheduler keeps starting the script and every call of a run returns
\* or raises; calls raise at most MaxFails times
LiveSpec == Init /\ [][LiveNext]_vars /\ WF_vars(StartAgain \/ PassStep)

\* ------------------------------------------------------------ properties
\* a pass is under way
InRun == pc \notin {"idle", "finished", "failed"}

\* the calls that change a ticket
TicketOps == {"add_issue", "add_label", "close_issue"}

\* the positions in the log of the calls of the run for issue f among ops
CallsOf(f, ops) == {i \in 1..Len(log) : log[i].f = f /\ log[i].op \in ops}

\* a call op for issue f was made in the run and returned (ok) or raised
Made(f, op, ok) == \E i \in CallsOf(f, {op}) : log[i].ok = ok

\* a call of the run for issue f raised
FailedFor(f) == \E i \in 1..Len(log) : log[i].f = f /\ ~log[i].ok

\* a message of the kind was sent for issue f in the run
Notified(f, kind) ==
  \E i \in CallsOf(f, {"report_issue"}) : log[i].ok /\ log[i].arg.kind = kind

\* the loop body has run to its end for the current issue: the loop is back
\* at its head and no exception left the method
AtEndOf(f) == pc = "issues" /\ cur.id = f

\* C1: an unreported issue whose jira.add_issue call returned is, at the end
\* of its iteration, persisted with status Reported, a reported timestamp,
\* the ticket id and assignee of the response (when there is one), and the
\* owner, bu and product of its tags (None for a missing tag).
C1_ReportedAfterCreate ==
  \A f \in Findings :
    (AtEndOf(f) /\ cur.reported = NoTime /\ Made(f, "add_issue", TRUE)) =>
      LET r == log[CHOOSE i \in CallsOf(f, {"add_issue"}) : TRUE].arg
          tags == store[f].tags
      IN /\ store[f].status = "Reported"
         /\ store[f].reported # NoTime
         /\ ~r.is_none => /\ store[f].ticket = r.ticket_id
                          /\ store[f].assignee = r.ticket_assignee_id
         /\ store[f].owner = (IF "owner" \in DOMAIN tags THEN tags.owner ELSE None)
         /\ store[f].bu = (IF "bu" \in DOMAIN tags THEN tags.bu ELSE None)
         /\ store[f].product = (IF "product" \in DOMAIN tags THEN tags.product ELSE None)

\* C1 witness: issue 1 (tags owner and bu, no product) was filed with a
\* ticket and its iteration has ended
C1_Witness ==
  /\ AtEndOf(1) /\ Made(1, "add_issue", TRUE)
  /\ store[1].ticket # NoTicket
  /\ store[1].owner = "alice" /\ store[1].product = None

\* C2: when jira.add_issue raises for an issue, that call is the only call
\* of the pass for the issue (no notification, no table write), the issue
\* object and the persisted issue are as they were read, and the persisted
\* issue is one a following pass fetches and files a ticket for; every pass
\* over an unreported issue calls jira.add_issue.
C2_FailedCreateLeavesIssue ==
  /\ \A f \in Findings :
       (InRun /\ Made(f, "add_issue", FALSE)) =>
         /\ CallsOf(f, {"add_issue", "add_label", "close_issue",
                        "report_issue", "set_status"}) = CallsOf(f, {"add_issue"})
         /\ Cardinality(CallsOf(f, {"add_issue"})) = 1
         /\ store[f].reported = NoTime
         /\ store[f].ticket = NoTicket
         /\ store[f].status # "Closed"
         /\ cur.id = f => (pc = "issues" /\ store[f] = cur)
  /\ (InRun /\ cur.id # 0 /\ cur.reported = NoTime) =>
       (pc = "add_issue" \/ CallsOf(cur.id, {"add_issue"}) # {})

\* C2 witness: jira.add_issue has just raised for issue 2 and the loop is
\* back at its head
C2_Witness == AtEndOf(2) /\ Made(2, "add_issue", FALSE)

C4_FailureDoesNotAbortPass ==
  pc \in {"finished", "failed"} =>
    /\ acctIdx > Len(Accounts)
    /\ \A f \in Findings : f \in visited \/ store[f].status = "Closed"

\* C5: when jira.close_issue is called for a Whitelisted issue, a
\* jira.add_label call on the same ticket has returned before it; no
\* jira.add_label call is made for a Resolved issue.
C5_LabelBeforeClose ==
  cur.id # 0 =>
    /\ cur.status = "Whitelisted" =>
         \A i \in CallsOf(cur.id, {"close_issue"}) :
           \E j \in CallsOf(cur.id, {"add_label"}) :
             j < i /\ log[j].ok /\ log[j].arg = log[i].arg
    /\ cur.status = "Resolved" => CallsOf(cur.id, {"add_label"}) = {}

\* C5 witness: the ticket of a Whitelisted issue has been labelled and
\* closed
C5_Witness ==
  /\ pc = "report_closing" /\ cur.status = "Whitelisted"
  /\ cur.ticket # NoTicket
  /\ "Whitelisted" \in tickets[cur.ticket].labels
  /\ tickets[cur.ticket].closes = 1

\* C6 as stated: a run in which jira.add_label failed for an issue has
\* still closed its ticket, sent the closing message and persisted the
\* issue as Closed.
C6_LabelIsBestEffort ==
  \A f \in Findings :
    (pc \in {"finished", "failed"} /\ Made(f, "add_label", FALSE)) =>
      /\ Made(f, "close_issue", TRUE)
      /\ Notified(f, "closing")
      /\ store[f].status = "Closed"

\* C7: for a reported issue read with status Open and updated > reported,
\* no ticket call is made and the persisted status stays Open; at most one
\* message is sent, and at the end of the iteration exactly one message, of
\* the kind "changed", has been sent.
C7_DriftNotifiesOnly ==
  (cur.id # 0 /\ IsReported(cur) /\ cur.status = "Open" /\ cur.updated > cur.reported) =>
    /\ CallsOf(cur.id, TicketOps) = {}
    /\ store[cur.id].status = "Open"
    /\ Cardinality(CallsOf(cur.id, {"report_issue"})) <= 1
    /\ ~Notified(cur.id, "closing") /\ ~Notified(cur.id, "discovered")
    /\ AtEndOf(cur.id) =>
         /\ Notified(cur.id, "changed")
         /\ Cardinality(CallsOf(cur.id, {"report_issue"})) = 1

\* C7 witness: the iteration of a reported, Open, changed issue has ended
C7_Witness ==
  /\ cur.id # 0 /\ AtEndOf(cur.id)
  /\ IsReported(cur) /\ cur.status = "Open" /\ cur.updated > cur.reported
  /\ Notified(cur.id, "changed")

\* C8: for a reported issue read with status Open and updated <= reported,
\* the iteration makes no call at all (no ticket call, no message, no table
\* write) and the persisted issue equals the issue as read.
C8_UnchangedIsNoOp ==
  (cur.id # 0 /\ IsReported(cur) /\ cur.status = "Open" /\ cur.updated <= cur.reported) =>
    /\ pc = "issues"
    /\ CallsOf(cur.id, {"add_issue", "add_label", "close_issue",
                        "report_issue", "set_status"}) = {}
    /\ store[cur.id] = cur

\* C8 witness: a reported, Open, unchanged issue has been iterated
C8_Witness ==
  /\ cur.id # 0 /\ AtEndOf(cur.id)
  /\ IsReported(cur) /\ cur.status = "Open" /\ cur.updated <= cur.reported

\* C9 as stated: in a run, at most one ticket call, one message and one
\* table write are made for an issue.
C9_OneCallOfEachKind ==
  \A f \in Findings :
    /\ Cardinality(CallsOf(f, TicketOps)) <= 1
    /\ Cardinality(CallsOf(f, {"report_issue"})) <= 1
    /\ Cardinality(CallsOf(f, {"set_status"})) <= 1

\* C9, amended: in a run, at most one message and one table write are made
\* for an issue, and at most one ticket call, except that a Whitelisted
\* issue gets two: jira.add_label, then jira.close_issue.
C9_OneCallOfEachKindButLabel ==
  \A f \in Findings :
    /\ Cardinality(CallsOf(f, {"add_issue"})) <= 1
    /\ Cardinality(CallsOf(f, {"add_label"})) <= 1
    /\ Cardinality(CallsOf(f, {"close_issue"})) <= 1
    /\ Cardinality(CallsOf(f, TicketOps)) <= 2
    /\ Cardinality(CallsOf(f, TicketOps)) = 2 =>
         /\ CallsOf(f, {"add_issue"}) = {}
         /\ \A i \in CallsOf(f, {"add_label"}), j \in CallsOf(f, {"close_issue"}) : i < j
    /\ Cardinality(CallsOf(f, {"report_issue"})) <= 1
    /\ Cardinality(CallsOf(f, {"set_status"})) <= 1

\* C9 witness: a run has made the two ticket calls, the message and the
\* table write of a Whitelisted issue
C9_Witness ==
  \E f \in Findings :
    /\ Made(f, "add_label", TRUE) /\ Made(f, "close_issue", TRUE)
    /\ Notified(f, "closing") /\ Made(f, "set_status", TRUE)

\* C10: a reported issue read with status Resolved or Whitelisted and
\* updated > reported is never sent the "changed" message; at the end of
\* its iteration jira.close_issue has returned, the one message sent is the
\* closing one, and the issue is persisted as Closed.
C10_CloseBeforeDrift ==
  (cur.id # 0 /\ IsReported(cur) /\ cur.status \in {"Resolved", "Whitelisted"}
     /\ cur.updated > cur.reported) =>
    /\ ~Notified(cur.id, "changed")
    /\ pc \notin {"report_changed", "set_status_updated"}
    /\ AtEndOf(cur.id) =>
         /\ Made(cur.id, "close_issue", TRUE)
         /\ Notified(cur.id, "closing")
         /\ Cardinality(CallsOf(cur.id, {"report_issue"})) = 1
         /\ store[cur.id].status = "Closed"

\* C10 witness: the iteration of a reported, Resolved and changed issue has
\* ended
C10_Witness ==
  /\ cur.id # 0 /\ AtEndOf(cur.id)
  /\ IsReported(cur) /\ cur.status = "Resolved" /\ cur.updated > cur.reported
  /\ store[cur.id].status = "Closed"

\* the tickets jira.add_issue has filed for issue f
TicketsOf(f) == {t \in 1..Len(tickets) : tickets[t].issue = f}

\* C11 as stated: a persisted issue has a ticket id iff its reported
\* timestamp is set.
C11_TicketIffReported ==
  \A f \in Findings : (store[f].ticket # NoTicket) <=> (store[f].reported # NoTime)

\* C11, amended: a persisted issue has a ticket id only if its reported
\* timestamp is set, and the id is that of a ticket filed for the issue; a
\* reported issue has no ticket id when jira.add_issue returned None.
C11_TicketOnlyIfReported ==
  \A f \in Findings :
    store[f].ticket # NoTicket =>
      /\ store[f].reported # NoTime
      /\ store[f].ticket \in TicketsOf(f)

\* C11 witness: one issue is reported with a ticket id, the other is
\* reported without one
C11_Witness ==
  \E f, g \in Findings :
    /\ store[f].ticket # NoTicket /\ store[f].reported # NoTime
    /\ store[g].ticket = NoTicket /\ store[g].reported # NoTime

\* C13 as stated: over all the runs, jira.add_issue files at most one
\* ticket for an issue.
C13_NoDoubleFiling == \A f \in Findings : Cardinality(TicketsOf(f)) <= 1

\* C14: for an issue read without a reported timestamp, whatever its
\* status, the iteration is in the branch that files a ticket: it calls
\* jira.add_issue first and never jira.add_label or jira.close_issue.
C14_UnreportedFirst ==
  (cur.id # 0 /\ cur.reported = NoTime) =>
    /\ pc \in {"add_issue", "report_discovered", "set_status_reported", "issues"}
    /\ CallsOf(cur.id, {"add_label", "close_issue"}) = {}
    /\ pc # "add_issue" =>
         /\ CallsOf(cur.id, {"add_issue"}) # {}
         /\ \A i \in CallsOf(cur.id, {"report_issue", "set_status"}) :
              \E j \in CallsOf(cur.id, {"add_issue"}) : j < i

\* C14 witness: a ticket has been filed for an unreported issue read with
\* status Whitelisted
C14_Witness ==
  /\ cur.id # 0 /\ cur.reported = NoTime /\ cur.status = "Whitelisted"
  /\ pc = "report_discovered" /\ Made(cur.id, "add_issue", TRUE)

\* C16: when jira.add_issue returned None for an issue, at the end of the
\* iteration the issue is persisted as Reported with a reported timestamp,
\* no ticket id, and the owner, bu and product of its tags, and the
\* "discovered" message was sent without a ticket url; in every iteration
\* of the unreported branch the calls are add_issue, then report_issue,
\* then set_status_reported.
C16_ReportedWithoutTicket ==
  /\ \A f \in Findings :
       (AtEndOf(f) /\ \E i \in CallsOf(f, {"add_issue"}) :
                         log[i].ok /\ log[i].arg.is_none) =>
         /\ store[f].status = "Reported"
         /\ store[f].reported # NoTime
         /\ store[f].ticket = NoTicket
         /\ store[f].owner = TagsGet(store[f].tags, "owner")
         /\ store[f].bu = TagsGet(store[f].tags, "bu")
         /\ store[f].product = TagsGet(store[f].tags, "product")
         /\ \E j \in CallsOf(f, {"report_issue"}) :
              log[j].ok /\ log[j].arg.kind = "discovered" /\ ~log[j].arg.url
  /\ \A i \in 1..Len(log) :
       /\ (log[i].op = "report_issue" /\ log[i].arg.kind = "discovered") =>
            /\ i > 1
            /\ log[i-1].f = log[i].f /\ log[i-1].op = "add_issue" /\ log[i-1].ok
            /\ log[i].arg.url = ~log[i-1].arg.is_none
       /\ (log[i].op = "set_status" /\ log[i].arg = "Reported") =>
            /\ i > 2
            /\ log[i-1].f = log[i].f /\ log[i-1].op = "report_issue" /\ log[i-1].ok
            /\ log[i-1].arg.kind = "discovered"

\* C16 witness: the iteration of an issue for which jira.add_issue returned
\* None has ended
C16_Witness ==
  \E f \in Findings :
    /\ AtEndOf(f) /\ store[f].status = "Reported" /\ store[f].ticket = NoTicket
    /\ \E i \in CallsOf(f, {"add_issue"}) : log[i].ok /\ log[i].arg.is_none

C18_ClosedIsTerminal ==
  /\ [](\A f \in Findings :
          store[f].status = "Closed" =>
            /\ \A i \in 1..Len(issues) : issues[i].id # f
            /\ GetAccountNotClosedIssues(AccountOf(f)) =
                 SelectSeq(GetAccountNotClosedIssues(AccountOf(f)), LAMBDA x : x.id # f)
            /\ cur.id = f => pc = "issues"
            /\ CallsOf(f, {"add_issue", "add_label", "close_issue",
                           "report_issue", "set_status"}) # {} =>
                 \E k \in CallsOf(f, {"set_status"}) :
                   /\ log[k].ok /\ log[k].arg = "Closed"
                   /\ \A i \in CallsOf(f, {"add_issue", "add_label", "close_issue",
                                            "report_issue", "set_status"}) : i <= k)
  /\ [][\A f \in Findings :
          store[f].status = "Closed" =>
            store'[f] = [store[f] EXCEPT !.tags = store'[f].tags,
                                         !.updated = store'[f].updated]]_vars

\* C18 witness: a run has iterated the issues of the account of issue 1,
\* which is Closed and which the scanner has refreshed since it was closed
C18_Witness ==
  /\ store[1].status = "Closed" /\ store[1].updated > store[1].reported
  /\ store[1].tags # InitTags(1)
  /\ acctIdx = 2 /\ pc = "issues" /\ issues = <<>> /\ visited = {2}
  /\ tickets[1].closes = 1

\* C12: an instance launched while another holds the singleton never runs
\* create_tickets_ecs_logging: when it ends, the table, the tickets, the
\* calls made and the position of the running instance are as they were;
\* it starts a run only when no instance is running.
C12_OneInstanceRuns ==
  /\ [](other # "running")
  /\ [][(other = "launched" /\ other' # "launched") =>
          IF SingletonHeld
          THEN UNCHANGED <<store, tickets, log, pc, cur, issues, runs>>
          ELSE pc' = "accounts" /\ UNCHANGED <<store, tickets, log>>]_vars

\* C12 witness: a second instance is launched while a run is about to call
\* jira.add_issue
C12_Witness == other = "launched" /\ pc = "add_issue"

\* C15: in the run that follows a run in which no call raised, with no
\* scanner write in between, no call is made at all.
C15_SecondPassIsNoOp == clean => log = <<>>

\* C15 witness: the third run ended without a call, after the first run
\* reported both issues and the second acknowledged the refresh of issue 1
C15_Witness ==
  /\ clean /\ pc = "finished" /\ log = <<>> /\ runs = 3 /\ fails = 0
  /\ store[1].reported = 2 /\ store[1].updated = 2 /\ store[2].reported = 1

\* C19: a persisted issue is Closed only if a jira.close_issue call for it
\* has returned, and has a reported timestamp only if a jira.add_issue call
\* for it has returned; the table write is the last call of an iteration.
C19_StoreNotAhead ==
  /\ \A f \in Findings :
       /\ store[f].status = "Closed" => "close_issue" \in returned[f]
       /\ store[f].reported # NoTime => "add_issue" \in returned[f]
  /\ \A k \in 1..Len(log) :
       log[k].op = "set_status" =>
         \A i \in CallsOf(log[k].f, {"add_issue", "add_label", "close_issue",
                                      "report_issue", "set_status"}) : i <= k

\* C19 witness: after a call raised, an issue is persisted as Closed
C19_Witness ==
  \E f \in Findings :
    /\ fails = 1 /\ store[f].status = "Closed"
    /\ returned[f] = {"add_issue", "close_issue"}

\* C20: with runs started again and again and calls raising finitely often,
\* from some point on every issue is reported and none is left Resolved or
\* Whitelisted; a reported issue leaves Resolved or Whitelisted only by being
\* persisted as Closed, or by a write of the scanner.
C20_EventuallyReportedAndClosed ==
  /\ <>[](\A f \in Findings :
            /\ store[f].reported # NoTime
            /\ store[f].status \notin {"Resolved", "Whitelisted"})
  /\ [][\A f \in Findings :
          (/\ store[f].reported # NoTime
           /\ store[f].status \in {"Resolved", "Whitelisted"}
           /\ store'[f].status # store[f].status)
          => (store'[f].status = "Closed" \/ scans' # scans)]_vars

\* C20 witness: an issue whose first ticket was filed in a run that failed
\* has been filed again, reported and closed
C20_Witness ==
  \E f \in Findings :
    /\ fails = MaxFails /\ Cardinality(TicketsOf(f)) = 2
    /\ store[f].status = "Closed"

====
